---- MODULE Spec2Model ----
(***************************************************************************)
(* Verification model of siftin-py.                                        *)
(*                                                                         *)
(*   - the run / lead store            (src/api/database.py)               *)
(*   - the collector API client        (src/api/brightdata_api_client.py)  *)
(*                                                                         *)
(* The store is the SQLite database file: the runs table, the run_leads    *)
(* table and the AUTOINCREMENT counter of runs.  Every store operation     *)
(* opens its own connection, runs one transaction and closes it, so one    *)
(* action is one whole call.                                               *)
(***************************************************************************)
EXTENDS Integers, Sequences, FiniteSets, Bags, TLC

(***************************************************************************)
(* Bounds of the model.                                                    *)
(***************************************************************************)
MaxRuns == 2          \* number of runs rows ever inserted
MaxLeads == 2         \* longest leads argument of create_run
MaxSel == 1           \* longest selected_lead_ids argument
MaxRows == 2          \* most rows table run_leads ever holds

(***************************************************************************)
(* Input alphabets.                                                        *)
(***************************************************************************)
LeadIds == {"a", "b"}
Statuses == {"success", "failed"}

SeqsUpTo(S, n) == UNION {[1..k -> S] : k \in 0..n}
LeadLists == SeqsUpTo(LeadIds, MaxLeads)
SelLists == SeqsUpTo(LeadIds, MaxSel)
RunIds == 1..MaxRuns

VARIABLES
    runs,        \* rows of table runs: [id, total_leads, selected_leads, status]
    run_leads,   \* rows of table run_leads in rowid order: [run_id, lead_id, is_selected]
    run_seq,     \* sqlite_sequence entry of runs (AUTOINCREMENT: ids are never reused)
    last         \* the last store call and what it gave its caller

storeVars == <<runs, run_leads, run_seq, last>>

VARIABLES
    min_request_interval,  \* module global _min_request_interval, in seconds
    last_escalation,       \* which path last raised the interval: none, trigger, polling
    pc,                    \* position of the running search_linkedin_profiles call
    elapsed_time,          \* its local elapsed_time
    retry_count,           \* its local retry_count
    fetches,               \* get_collection_data calls it has made
    auth_at,               \* the fetch that raised an authentication error, 0 if none
    rate_limits,           \* rate limit errors its polling loop has caught
    search_result,         \* how the call ended: none, returned, empty, raised_auth, raised_rate
    call                   \* the last client operation called: its credentials and
                           \* whether it sent a request

clientVars == <<min_request_interval, last_escalation, pc, elapsed_time,
                retry_count, fetches, auth_at, rate_limits, search_result, call>>

VARIABLES
    response,    \* the last response of a capture, save or download endpoint
    awaiting     \* the capture handlers suspended at their await of the scraper

apiVars == <<response, awaiting>>

VARIABLES
    auth_cache,  \* module global _linkedin_auth_cache: [result, timestamp]
    now,         \* time.time(), in seconds
    checks,      \* auth-status requests waiting for the checker: slot -> current_time
    auth_reply,  \* the last answer of an auth-status request
    cleared      \* clear-cache has returned and no auth-status request came since

authVars == <<auth_cache, now, checks, auth_reply, cleared>>

VARIABLES
    scrape       \* the running scraping call: arguments, locals, pages requested

scraperVars == <<scrape>>

VARIABLES
    cli          \* the last run of the quick-extraction script: argv and what it parsed

cliVars == <<cli>>

VARIABLES
    fast,        \* the last run of the cookie fast path: what it read and returned
    cookie_file, \* COOKIE_FILE of the local session manager
    local        \* the last call of the local session manager and its result

sessionVars == <<fast, cookie_file, local>>

vars == <<storeVars, clientVars, apiVars, authVars, scraperVars, cliVars, sessionVars>>

(***************************************************************************)
(* Sequence helpers.                                                       *)
(***************************************************************************)
InList(x, s) == \E i \in DOMAIN s : s[i] = x

(***************************************************************************)
(* The store as one value, so that a transaction can be computed on a      *)
(* working copy and then committed or rolled back.                         *)
(***************************************************************************)
Db == [runs |-> runs, run_leads |-> run_leads, run_seq |-> run_seq]

RunRow(db, run_id) == CHOOSE r \in db.runs : r.id = run_id
RunExists(db, run_id) == \E r \in db.runs : r.id = run_id

(***************************************************************************)
(* get_db_connection: sqlite3.connect(DB_PATH) and a row factory.  The     *)
(* connection never issues PRAGMA foreign_keys = ON, and SQLite enforces   *)
(* foreign keys (and so ON DELETE CASCADE) only on connections that do.    *)
(***************************************************************************)
ForeignKeysOn == FALSE

(***************************************************************************)
(* Table run_leads of init_database: UNIQUE(run_id, lead_id).  An INSERT   *)
(* that breaks it raises sqlite3.IntegrityError and inserts nothing.       *)
(***************************************************************************)
NoUniqueCheck(rows, row) == TRUE

InsertAllowed(rows, row) ==
    ~ \E i \in DOMAIN rows :
         rows[i].run_id = row.run_id /\ rows[i].lead_id = row.lead_id

(***************************************************************************)
(* The for loop of create_run over leads[i..], on the working copy: each   *)
(* lead is inserted with is_selected = 1 iff its id is in                  *)
(* selected_lead_ids; the first failing INSERT ends the loop with ok =     *)
(* FALSE and the rows inserted so far still in the working copy.           *)
(***************************************************************************)
RECURSIVE InsertLeads(_, _, _, _, _)
InsertLeads(rows, run_id, leads, selected_lead_ids, i) ==
    IF i > Len(leads) THEN [ok |-> TRUE, rows |-> rows]
    ELSE LET row == [run_id |-> run_id,
                     lead_id |-> leads[i],
                     is_selected |-> IF InList(leads[i], selected_lead_ids) THEN 1 ELSE 0]
         IN IF InsertAllowed(rows, row)
            THEN InsertLeads(Append(rows, row), run_id, leads, selected_lead_ids, i + 1)
            ELSE [ok |-> FALSE, rows |-> rows]

(***************************************************************************)
(* except: conn.rollback(); raise e  -- the working copy is dropped and    *)
(* the database is what it was before the call.                            *)
(***************************************************************************)
KeepPartial(db, working) == working

Rollback(db, working) == db

(***************************************************************************)
(* create_run as a function of the database: the runs row is inserted     *)
(* with total_leads = len(leads), selected_leads = len(selected_lead_ids)  *)
(* and the status given, then the leads; commit on success, rollback and   *)
(* re-raise on any failure.                                                *)
(***************************************************************************)
CreateRunTxn(db, leads, selected_lead_ids, status) ==
    LET run_id == db.run_seq + 1
        run == [id |-> run_id,
                total_leads |-> Len(leads),
                selected_leads |-> Len(selected_lead_ids),
                status |-> status]
        ins == InsertLeads(db.run_leads, run_id, leads, selected_lead_ids, 1)
        working == [runs |-> db.runs \cup {run},
                    run_leads |-> ins.rows,
                    run_seq |-> run_id]
    IN IF ins.ok
       THEN [db |-> working, raised |-> FALSE, run_id |-> run_id]
       ELSE [db |-> Rollback(db, working), raised |-> TRUE, run_id |-> 0]

(***************************************************************************)
(* update_run_selections as a function of the database: every run_leads   *)
(* row of the run is unselected, the rows of the run whose lead_id is in   *)
(* selected_lead_ids are selected, and runs.selected_leads becomes         *)
(* len(selected_lead_ids).  The result is rowcount > 0 of the last UPDATE, *)
(* that is, whether a runs row with this id exists.  The two UPDATEs of    *)
(* run_leads are keyed on run_id alone, so they also reach rows whose run  *)
(* row is gone.                                                            *)
(***************************************************************************)
SelectedCountAdds(db, run_id, selected_lead_ids) ==
    LET n == IF RunExists(db, run_id)
             THEN RunRow(db, run_id).selected_leads ELSE 0
    IN  n + Len(selected_lead_ids)

SelectedCount(db, run_id, selected_lead_ids) == Len(selected_lead_ids)

UpdateSelectionsTxn(db, run_id, selected_lead_ids) ==
    LET rows == [i \in DOMAIN db.run_leads |->
                    IF db.run_leads[i].run_id = run_id
                    THEN [db.run_leads[i] EXCEPT !.is_selected =
                            IF InList(db.run_leads[i].lead_id, selected_lead_ids)
                            THEN 1 ELSE 0]
                    ELSE db.run_leads[i]]
        rs == {IF r.id = run_id
               THEN [r EXCEPT !.selected_leads =
                        SelectedCount(db, run_id, selected_lead_ids)]
               ELSE r : r \in db.runs}
    IN [db |-> [runs |-> rs, run_leads |-> rows, run_seq |-> db.run_seq],
        updated |-> RunExists(db, run_id)]

(***************************************************************************)
(* delete_run as a function of the database: DELETE FROM runs WHERE id =   *)
(* ?.  The rows of run_leads go with it only where the connection enforces *)
(* the foreign key.  The result is rowcount > 0.                           *)
(***************************************************************************)
DeleteRunTxn(db, run_id) ==
    LET rows == IF ForeignKeysOn
                THEN SelectSeq(db.run_leads, LAMBDA row : row.run_id # run_id)
                ELSE db.run_leads
    IN [db |-> [runs |-> {r \in db.runs : r.id # run_id},
                run_leads |-> rows,
                run_seq |-> db.run_seq],
        deleted |-> RunExists(db, run_id)]

(***************************************************************************)
(* Queries.  Rows come back ORDER BY created_at; the rows of one run are   *)
(* written by one create_run call in list order, so that is rowid order.   *)
(***************************************************************************)
GetRunLeadsIgnoringFlag(db, run_id, selected_only) ==
    SelectSeq(db.run_leads, LAMBDA row : row.run_id = run_id)

GetRunLeads(db, run_id, selected_only) ==
    SelectSeq(db.run_leads,
              LAMBDA row : /\ row.run_id = run_id
                           /\ (selected_only => row.is_selected = 1))

GetRun(db, run_id) ==
    IF ~RunExists(db, run_id) THEN [found |-> FALSE]
    ELSE [found |-> TRUE,
          run |-> RunRow(db, run_id),
          leads |-> GetRunLeads(db, run_id, FALSE)]

(***************************************************************************)
(* Initial state: init_database on a fresh file.                           *)
(***************************************************************************)
NoCall == [op |-> "none", run_id |-> 0, result |-> "none",
           leads |-> <<>>, selected_lead_ids |-> <<>>]

StoreInit ==
    /\ runs = {}
    /\ run_leads = <<>>
    /\ run_seq = 0
    /\ last = NoCall

(***************************************************************************)
(* The end of a call: the transaction's outcome becomes the database, and  *)
(* the call and its result are noted, with the list arguments of a call    *)
(* that succeeded (returned a run id or True).                             *)
(***************************************************************************)
Finish(db, op, run_id, result, leads, selected_lead_ids) ==
    /\ runs' = db.runs
    /\ run_leads' = db.run_leads
    /\ run_seq' = db.run_seq
    /\ last' = [op |-> op, run_id |-> run_id, result |-> result,
                leads |-> IF result \in {"returned", "true"} THEN leads ELSE <<>>,
                selected_lead_ids |->
                    IF result \in {"returned", "true"}
                    THEN selected_lead_ids ELSE <<>>]
    /\ UNCHANGED <<clientVars, apiVars, authVars, scraperVars, cliVars, sessionVars>>

(***************************************************************************)
(* The store's operations.                                                 *)
(***************************************************************************)
CreateRun(leads, selected_lead_ids, status) ==
    /\ last = NoCall
    /\ run_seq < MaxRuns
    /\ LET t == CreateRunTxn(Db, leads, selected_lead_ids, status)
       IN /\ Len(t.db.run_leads) <= MaxRows
          /\ Finish(t.db, "create_run", t.run_id,
                    IF t.raised THEN "raised" ELSE "returned",
                    leads, selected_lead_ids)

CreateFailedRun ==
    /\ last = NoCall
    /\ run_seq < MaxRuns
    /\ LET t == CreateRunTxn(Db, <<>>, <<>>, "failed")
       IN Finish(t.db, "create_failed_run", t.run_id,
                 IF t.raised THEN "raised" ELSE "returned", <<>>, <<>>)

UpdateRunSelections(run_id, selected_lead_ids) ==
    /\ last = NoCall
    /\ LET t == UpdateSelectionsTxn(Db, run_id, selected_lead_ids)
       IN Finish(t.db, "update_run_selections", run_id,
                 IF t.updated THEN "true" ELSE "false", <<>>, selected_lead_ids)

DeleteRun(run_id) ==
    /\ last = NoCall
    /\ LET t == DeleteRunTxn(Db, run_id)
       IN Finish(t.db, "delete_run", run_id,
                 IF t.deleted THEN "true" ELSE "false", <<>>, <<>>)

(***************************************************************************)
(* The caller has taken the result of the call; the store is ready for the *)
(* next call.  Calls are synchronous and each opens and closes its own     *)
(* connection, so a call starts only after the one before it has ended.    *)
(***************************************************************************)
Return ==
    /\ last # NoCall
    /\ last' = NoCall
    /\ UNCHANGED <<runs, run_leads, run_seq>>
    /\ UNCHANGED <<clientVars, apiVars, authVars, scraperVars, cliVars, sessionVars>>

StoreNext ==
    \/ \E leads \in LeadLists, sel \in SelLists, status \in Statuses :
          CreateRun(leads, sel, status)
    \/ CreateFailedRun
    \/ \E run_id \in RunIds, sel \in SelLists : UpdateRunSelections(run_id, sel)
    \/ \E run_id \in RunIds : DeleteRun(run_id)
    \/ Return

(***************************************************************************)
(*                        The collector API client                         *)
(***************************************************************************)
MaxItems == 2         \* longest list response of the dataset endpoint

(***************************************************************************)
(* Text is modelled by the lower-cased words it contains.  A keyword test  *)
(* 'kw in text.lower()' is a substring test, so a word also answers for    *)
(* the keywords inside it.                                                 *)
(***************************************************************************)
SubstringOf == {<<"auth", "authentication">>, <<"auth", "unauthorized">>}

HasKeyword(text, kw) ==
    \E w \in text : w = kw \/ <<kw, w>> \in SubstringOf

auth_keywords == {"login", "auth", "authentication", "unauthorized", "forbidden",
                  "401", "403", "redirected to login", "authentication required"}

IsAuthText(text) == \E kw \in auth_keywords : HasKeyword(text, kw)
IsRateText(text) == HasKeyword(text, "rate") \/ HasKeyword(text, "limit")

ErrorTexts == {{"timeout"}, {"login"}, {"unauthorized"}, {"forbidden"},
               {"rate"}, {"limit"}, {"rate", "login"}}

(***************************************************************************)
(* The three formatted exceptions of get_collection_data: the phrases they *)
(* carry with their case, and their lower-cased words (the fixed text and  *)
(* the collector's own error text).                                        *)
(***************************************************************************)
AuthenticationError(error_msg) ==
    [marks |-> {"BrightData", "Authentication"},
     lower |-> error_msg \cup {"brightdata", "authentication", "error"}]

RateLimitError(error_msg) ==
    [marks |-> {"BrightData", "Rate Limit"},
     lower |-> error_msg \cup {"brightdata", "rate", "limit", "error"}]

CollectionError(error_msg) ==
    [marks |-> {"BrightData"},
     lower |-> error_msg \cup {"brightdata", "collection", "error"}]

ClassifiedError(error_msg) ==
    IF IsAuthText(error_msg) THEN AuthenticationError(error_msg)
    ELSE IF IsRateText(error_msg) THEN RateLimitError(error_msg)
    ELSE CollectionError(error_msg)

(***************************************************************************)
(* Responses of the dataset endpoint.                                      *)
(***************************************************************************)
ValidItem == [kind |-> "valid", text |-> {}]
Items == {ValidItem, [kind |-> "nondict", text |-> {}]}
            \cup {[kind |-> "error", text |-> t] : t \in ErrorTexts}

DataResponses ==
    {[kind |-> "list", items |-> its, truthy |-> FALSE, body |-> {}] :
        its \in SeqsUpTo(Items, MaxItems)}
    \cup {[kind |-> k, items |-> its, truthy |-> FALSE, body |-> {}] :
            k \in {"dict_data", "dict_items", "dict_results"},
            its \in {<<>>, <<ValidItem>>}}
    \cup {[kind |-> k, items |-> <<>>, truthy |-> FALSE, body |-> {}] :
            k \in {"dict_single", "scalar", "exception"}}
    \cup {[kind |-> "http_error", items |-> <<>>, truthy |-> b, body |-> t] :
            b \in BOOLEAN, t \in {{"rate"}, {"limit"}, {"timeout"}}}

Returned(items) == [raised |-> FALSE, none |-> FALSE, items |-> items,
                    msg |-> [marks |-> {}, lower |-> {}]]
ReturnedNone == [raised |-> FALSE, none |-> TRUE, items |-> <<>>,
                 msg |-> [marks |-> {}, lower |-> {}]]
Raised(msg) == [raised |-> TRUE, none |-> FALSE, items |-> <<>>, msg |-> msg]

(***************************************************************************)
(* get_collection_data on one response of the endpoint.                    *)
(***************************************************************************)
GetCollectionData(has_token, resp) ==
    IF ~has_token THEN ReturnedNone
    ELSE IF resp.kind = "http_error"
    THEN IF resp.truthy /\ IsRateText(resp.body)
         THEN Raised(RateLimitError({}))
         ELSE ReturnedNone
    ELSE IF resp.kind = "exception" THEN ReturnedNone
    ELSE IF resp.kind = "list"
    THEN IF Len(resp.items) > 0 /\ resp.items[1].kind = "error"
         THEN Raised(ClassifiedError(resp.items[1].text))
         ELSE LET error_items == SelectSeq(resp.items, LAMBDA it : it.kind = "error")
                  valid_items == SelectSeq(resp.items, LAMBDA it : it.kind = "valid")
              IN IF error_items # <<>> /\ valid_items = <<>>
                 THEN Raised(ClassifiedError(error_items[1].text))
                 ELSE Returned(valid_items)
    ELSE IF resp.kind \in {"dict_data", "dict_items", "dict_results"}
    THEN Returned(resp.items)
    ELSE IF resp.kind = "dict_single" THEN Returned(<<ValidItem>>)
    ELSE Returned(<<>>)

(***************************************************************************)
(* What a get_collection_data call of the search can give it: the image    *)
(* of every response of the endpoint, with the token the search has        *)
(* already checked for.                                                    *)
(***************************************************************************)
FetchOutcomes == {GetCollectionData(TRUE, resp) : resp \in DataResponses}

(***************************************************************************)
(* The classification made by the polling loop on str(e).                  *)
(***************************************************************************)
OnlyLoginIsAuth(msg) == HasKeyword(msg.lower, "login")

IsAuthenticationMessage(msg) ==
    \/ "Authentication" \in msg.marks
    \/ HasKeyword(msg.lower, "login")
    \/ HasKeyword(msg.lower, "auth")
    \/ HasKeyword(msg.lower, "redirected to login")

IsRateLimitMessage(msg) ==
    "Rate Limit" \in msg.marks \/ HasKeyword(msg.lower, "rate")

(***************************************************************************)
(* Program constants of the client.                                        *)
(***************************************************************************)
InitialInterval == 2
TriggerFactor == 2
TriggerCap == 10
PollingFactor == 3
PollingCap == 30
max_wait_time == 300
initial_wait == 20
check_interval == 10
max_retries == 3

Min(a, b) == IF a < b THEN a ELSE b

TriggerEscalateUncapped(interval) == interval * TriggerFactor

TriggerEscalate(interval) == Min(interval * TriggerFactor, TriggerCap)

PollingEscalate(interval) == Min(interval * PollingFactor, PollingCap)

(***************************************************************************)
(* What variable call holds: the operation, the credentials the client was *)
(* built with, whether the operation sent a request, and what it gave.     *)
(***************************************************************************)
Called(op, has_token, has_collector, requested, result) ==
    [op |-> op, has_token |-> has_token, has_collector |-> has_collector,
     requested |-> requested, result |-> result]

NoRequest == Called("none", FALSE, FALSE, FALSE, "none")

ClientInit ==
    /\ call = NoRequest
    /\ min_request_interval = InitialInterval
    /\ last_escalation = "none"
    /\ pc = "idle"
    /\ elapsed_time = 0
    /\ retry_count = 0
    /\ fetches = 0
    /\ auth_at = 0
    /\ rate_limits = 0
    /\ search_result = "none"

(***************************************************************************)
(* Responses of the trigger endpoint.                                      *)
(***************************************************************************)
TriggerResponses ==
    {[kind |-> "ok", has_id |-> b, truthy |-> FALSE, body |-> {}] : b \in BOOLEAN}
    \cup {[kind |-> "exception", has_id |-> FALSE, truthy |-> FALSE, body |-> {}]}
    \cup {[kind |-> "http_error", has_id |-> FALSE, truthy |-> b, body |-> t] :
            b \in BOOLEAN, t \in {{"rate"}, {"limit"}, {"timeout"}}}

TriggerEscalates(resp) ==
    resp.kind = "http_error" /\ resp.truthy /\ IsRateText(resp.body)

(***************************************************************************)
(* search_linkedin_profiles up to the first poll: the credentials check,   *)
(* trigger_collector and the initial wait.                                 *)
(***************************************************************************)
SearchStart(has_token, has_collector, resp) ==
    /\ pc = "idle"
    /\ UNCHANGED <<fetches, auth_at, retry_count, rate_limits>>
    /\ IF ~has_token \/ ~has_collector
       THEN /\ pc' = "done"
            /\ search_result' = "empty"
            /\ elapsed_time' = 0
            /\ call' = Called("search_linkedin_profiles", has_token, has_collector,
                              FALSE, "empty")
            /\ UNCHANGED <<min_request_interval, last_escalation>>
       ELSE /\ call' = Called("search_linkedin_profiles", has_token, has_collector,
                              TRUE, "none")
            /\ IF TriggerEscalates(resp)
               THEN /\ min_request_interval' = TriggerEscalate(min_request_interval)
                    /\ last_escalation' = "trigger"
               ELSE UNCHANGED <<min_request_interval, last_escalation>>
            /\ IF resp.kind = "ok" /\ resp.has_id
               THEN /\ pc' = "poll"
                    /\ search_result' = "none"
                    /\ elapsed_time' = initial_wait
               ELSE /\ pc' = "done"
                    /\ search_result' = "empty"
                    /\ elapsed_time' = 0
    /\ UNCHANGED <<storeVars, apiVars, authVars, scraperVars, cliVars, sessionVars>>

AfterWaitInclusive(elapsed) == IF elapsed <= max_wait_time THEN "poll" ELSE "timeout"

\* while elapsed_time < max_wait_time
AfterWait(elapsed) == IF elapsed < max_wait_time THEN "poll" ELSE "timeout"

NoteFetch(r) ==
    /\ fetches' = fetches + 1
    /\ auth_at' = IF r.raised /\ "Authentication" \in r.msg.marks
                  THEN fetches + 1 ELSE auth_at

(***************************************************************************)
(* One iteration of the polling loop.                                      *)
(***************************************************************************)
Poll(r) ==
    /\ pc = "poll"
    /\ NoteFetch(r)
    /\ IF ~r.raised
       THEN IF ~r.none /\ Len(r.items) > 0
            THEN /\ pc' = "done"
                 /\ search_result' = "returned"
                 /\ UNCHANGED <<elapsed_time, retry_count, rate_limits,
                                min_request_interval, last_escalation>>
            ELSE /\ elapsed_time' = elapsed_time + check_interval + retry_count * 2
                 /\ retry_count' = retry_count + 1
                 /\ pc' = AfterWait(elapsed_time')
                 /\ UNCHANGED <<search_result, rate_limits,
                                min_request_interval, last_escalation>>
       ELSE IF IsAuthenticationMessage(r.msg)
            THEN /\ pc' = "done"
                 /\ search_result' = "raised_auth"
                 /\ UNCHANGED <<elapsed_time, retry_count, rate_limits,
                                min_request_interval, last_escalation>>
            ELSE IF IsRateLimitMessage(r.msg)
            THEN /\ min_request_interval' = PollingEscalate(min_request_interval)
                 /\ last_escalation' = "polling"
                 /\ rate_limits' = rate_limits + 1
                 /\ retry_count' = retry_count + 1
                 /\ IF retry_count' >= max_retries
                    THEN pc' = "done" /\ search_result' = "raised_rate"
                    ELSE pc' = "poll" /\ UNCHANGED search_result
                 /\ UNCHANGED elapsed_time
            ELSE /\ elapsed_time' = elapsed_time + check_interval
                 /\ retry_count' = retry_count + 1
                 /\ pc' = AfterWait(elapsed_time')
                 /\ UNCHANGED <<search_result, rate_limits,
                                min_request_interval, last_escalation>>
    /\ UNCHANGED call
    /\ UNCHANGED <<storeVars, apiVars, authVars, scraperVars, cliVars, sessionVars>>

(***************************************************************************)
(* After the loop ran out of time: the fetch for partial results.          *)
(***************************************************************************)
TimeoutFetch(r) ==
    /\ pc = "timeout"
    /\ NoteFetch(r)
    /\ IF r.raised /\ IsAuthenticationMessage(r.msg)
       THEN pc' = "done" /\ search_result' = "raised_auth"
       ELSE IF r.raised /\ IsRateLimitMessage(r.msg)
       THEN pc' = "done" /\ search_result' = "raised_rate"
       ELSE IF ~r.raised /\ ~r.none /\ Len(r.items) > 0
       THEN pc' = "done" /\ search_result' = "returned"
       ELSE pc' = "recheck" /\ UNCHANGED search_result
    /\ UNCHANGED <<elapsed_time, retry_count, rate_limits,
                   min_request_interval, last_escalation, call>>
    /\ UNCHANGED <<storeVars, apiVars, authVars, scraperVars, cliVars, sessionVars>>

(***************************************************************************)
(* No data after the timeout fetch: the re-check for errors, which         *)
(* returns [] unless it raises an authentication or rate limit error.      *)
(***************************************************************************)
Recheck(r) ==
    /\ pc = "recheck"
    /\ NoteFetch(r)
    /\ pc' = "done"
    /\ search_result' =
          IF r.raised /\ IsAuthenticationMessage(r.msg) THEN "raised_auth"
          ELSE IF r.raised /\ IsRateLimitMessage(r.msg) THEN "raised_rate"
          ELSE "empty"
    /\ UNCHANGED <<elapsed_time, retry_count, rate_limits,
                   min_request_interval, last_escalation, call>>
    /\ UNCHANGED <<storeVars, apiVars, authVars, scraperVars, cliVars, sessionVars>>

(***************************************************************************)
(* The call is over; the process is ready for the next one.  The interval  *)
(* is process-wide and stays.                                              *)
(***************************************************************************)
SearchEnd ==
    /\ pc = "done"
    /\ pc' = "idle"
    /\ elapsed_time' = 0
    /\ retry_count' = 0
    /\ fetches' = 0
    /\ auth_at' = 0
    /\ rate_limits' = 0
    /\ search_result' = "none"
    /\ UNCHANGED <<min_request_interval, last_escalation, call>>
    /\ UNCHANGED <<storeVars, apiVars, authVars, scraperVars, cliVars, sessionVars>>

(***************************************************************************)
(* trigger_collector called on its own.                                    *)
(***************************************************************************)
TriggerCollector(has_token, has_collector, resp) ==
    /\ pc = "idle"
    /\ IF ~has_token \/ ~has_collector
       THEN /\ call' = Called("trigger_collector", has_token, has_collector,
                              FALSE, "none")
            /\ UNCHANGED <<min_request_interval, last_escalation>>
       ELSE /\ call' = Called("trigger_collector", has_token, has_collector, TRUE,
                              IF resp.kind = "ok" THEN "data" ELSE "none")
            /\ IF TriggerEscalates(resp)
               THEN /\ min_request_interval' = TriggerEscalate(min_request_interval)
                    /\ last_escalation' = "trigger"
               ELSE UNCHANGED <<min_request_interval, last_escalation>>
    /\ UNCHANGED <<pc, elapsed_time, retry_count, fetches, auth_at, rate_limits,
                   search_result>>
    /\ UNCHANGED <<storeVars, apiVars, authVars, scraperVars, cliVars, sessionVars>>

(***************************************************************************)
(* get_collection_data called on its own: it looks at the token only.      *)
(***************************************************************************)
CollectData(has_token, has_collector, resp) ==
    /\ pc = "idle"
    /\ LET r == GetCollectionData(has_token, resp)
       IN call' = [op |-> "get_collection_data", has_token |-> has_token,
                   has_collector |-> has_collector, requested |-> has_token,
                   result |-> IF r.raised THEN "raised"
                              ELSE IF r.none THEN "none" ELSE "list",
                   data |-> resp, outcome |-> r]
    /\ UNCHANGED <<min_request_interval, last_escalation, pc, elapsed_time,
                   retry_count, fetches, auth_at, rate_limits, search_result>>
    /\ UNCHANGED <<storeVars, apiVars, authVars, scraperVars, cliVars, sessionVars>>

ClientNext ==
    \/ \E t \in BOOLEAN, c \in BOOLEAN, resp \in TriggerResponses : SearchStart(t, c, resp)
    \/ \E t \in BOOLEAN, c \in BOOLEAN, resp \in TriggerResponses :
          TriggerCollector(t, c, resp)
    \/ \E t \in BOOLEAN, c \in BOOLEAN, resp \in DataResponses : CollectData(t, c, resp)
    \/ \E r \in FetchOutcomes : Poll(r)
    \/ \E r \in FetchOutcomes : TimeoutFetch(r)
    \/ \E r \in FetchOutcomes : Recheck(r)
    \/ SearchEnd

(***************************************************************************)
(*                        The HTTP layer: capture                          *)
(***************************************************************************)

MaxUrl == 4           \* longest linkedin_url of a request, in parts
MaxAwaiting == 2      \* capture handlers suspended at their await at once

(***************************************************************************)
(* A URL is the sequence of its parts; the literal the handlers look for   *)
(* is three of them in a row.                                              *)
(***************************************************************************)
UrlParts == {"https://www.linkedin.com", "/search", "/results", "/people",
             "/in/someone"}
Urls == SeqsUpTo(UrlParts, MaxUrl)

search_path == <<"/search", "/results", "/people">>

\* part in text
Contains(text, part) ==
    \E i \in 0..(Len(text) - Len(part)) :
        \A j \in 1..Len(part) : text[i + j] = part[j]

AnyLinkedInUrl(linkedin_url) ==
    linkedin_url # <<>> /\ Contains(linkedin_url, <<"https://www.linkedin.com">>)

\* not (not linkedin_url or "/search/results/people" not in linkedin_url)
IsSearchUrl(linkedin_url) ==
    linkedin_url # <<>> /\ Contains(linkedin_url, search_path)

(***************************************************************************)
(* What the browser scraper gives a handler: a list of items, of which     *)
(* some may not convert to a Lead, or an exception with its text.          *)
(***************************************************************************)
ScrapeOutcomes ==
    {[raised |-> FALSE, items |-> s, text |-> {}] :
        s \in SeqsUpTo({"lead", "other"}, MaxLeads)}
    \cup {[raised |-> TRUE, items |-> <<>>, text |-> t] : t \in ErrorTexts}

NotScraped == [raised |-> FALSE, items |-> <<>>, text |-> {"not called"}]

NoResponse == [endpoint |-> "none"]

(***************************************************************************)
(* FindLeadsResponse, ExtractNamesResponse and ExtractLinksResponse, with  *)
(* the request and what the scraper did: count is the length of leads,     *)
(* names or links, errors the length of errors (0 for None), success is    *)
(* "absent" where the response model has no such field.                    *)
(***************************************************************************)
CaptureReply(endpoint, linkedin_url, scraped, outcome, success, count, total, errors, requires_login, login_url) ==
    [endpoint |-> endpoint, linkedin_url |-> linkedin_url, scraped |-> scraped,
     outcome |-> outcome, status |-> 200, success |-> success, count |-> count,
     total |-> total, errors |-> errors, requires_login |-> requires_login,
     login_url |-> login_url]

Flag(b) == IF b THEN "true" ELSE "false"

FindLeadsReply(linkedin_url, out) ==
    IF ~IsSearchUrl(linkedin_url)
    THEN CaptureReply("find_leads", linkedin_url, FALSE, NotScraped, "absent",
                      0, 0, 1, FALSE, "none")
    ELSE LET leads == IF out.raised THEN <<>> ELSE out.items
             errors == IF out.raised \/ leads = <<>> THEN 1 ELSE 0
             lead_models == SelectSeq(leads, LAMBDA l : l = "lead")
         IN CaptureReply("find_leads", linkedin_url, TRUE, out, "absent",
                         Len(lead_models), Len(lead_models), errors, FALSE, "none")

ExtractReply(endpoint, linkedin_url, out) ==
    IF ~IsSearchUrl(linkedin_url)
    THEN CaptureReply(endpoint, linkedin_url, FALSE, NotScraped, "false",
                      0, 0, 1, FALSE, "none")
    ELSE LET found == IF out.raised THEN <<>> ELSE out.items
             errors == IF out.raised \/ found = <<>> THEN 1 ELSE 0
         IN CaptureReply(endpoint, linkedin_url, TRUE, out, Flag(Len(found) > 0),
                         Len(found), Len(found), errors, FALSE, "none")

OtherVarsOfApi == <<storeVars, clientVars, authVars, scraperVars, cliVars, sessionVars>>

\* the response has gone out; the server takes the next request
Respond ==
    /\ response # NoResponse
    /\ response' = NoResponse
    /\ UNCHANGED awaiting
    /\ UNCHANGED OtherVarsOfApi

(***************************************************************************)
(* A capture handler is a coroutine of the event loop.  It runs from the   *)
(* request to its await of the scraper, which works in a thread of its     *)
(* own, and from the scraper's result to the response; between the two it  *)
(* is suspended with its request, and the event loop runs other handlers.  *)
(***************************************************************************)
Suspended(endpoint, linkedin_url) ==
    [endpoint |-> endpoint, linkedin_url |-> linkedin_url]

Reply(endpoint, linkedin_url, out) ==
    IF endpoint = "find_leads" THEN FindLeadsReply(linkedin_url, out)
    ELSE ExtractReply(endpoint, linkedin_url, out)

\* from the request to the return of the validation or to the await
Request(endpoint, linkedin_url) ==
    /\ response = NoResponse
    /\ IF ~IsSearchUrl(linkedin_url)
       THEN /\ response' = Reply(endpoint, linkedin_url, NotScraped)
            /\ UNCHANGED awaiting
       ELSE /\ BagCardinality(awaiting) < MaxAwaiting
            /\ awaiting' = awaiting (+) SetToBag({Suspended(endpoint, linkedin_url)})
            /\ UNCHANGED response
    /\ UNCHANGED OtherVarsOfApi

\* from the scraper's result, or its exception, to the response
Resume(endpoint, linkedin_url, out) ==
    /\ response = NoResponse
    /\ BagIn(Suspended(endpoint, linkedin_url), awaiting)
    /\ awaiting' = awaiting (-) SetToBag({Suspended(endpoint, linkedin_url)})
    /\ response' = Reply(endpoint, linkedin_url, out)
    /\ UNCHANGED OtherVarsOfApi

FindLeads(linkedin_url) == Request("find_leads", linkedin_url)

FindLeadsResume(linkedin_url, out) == Resume("find_leads", linkedin_url, out)

ExtractNames(linkedin_url) == Request("extract_names", linkedin_url)

ExtractNamesResume(linkedin_url, out) == Resume("extract_names", linkedin_url, out)

ExtractLinks(linkedin_url) == Request("extract_links", linkedin_url)

ExtractLinksResume(linkedin_url, out) == Resume("extract_links", linkedin_url, out)

CaptureNext ==
    \/ response = NoResponse /\ \E u \in Urls : FindLeads(u)
    \/ response = NoResponse /\ \E u \in Urls : ExtractNames(u)
    \/ response = NoResponse /\ \E u \in Urls : ExtractLinks(u)
    \/ /\ response = NoResponse
       /\ \E s \in BagToSet(awaiting), out \in ScrapeOutcomes :
             FindLeadsResume(s.linkedin_url, out)
    \/ /\ response = NoResponse
       /\ \E s \in BagToSet(awaiting), out \in ScrapeOutcomes :
             ExtractNamesResume(s.linkedin_url, out)
    \/ /\ response = NoResponse
       /\ \E s \in BagToSet(awaiting), out \in ScrapeOutcomes :
             ExtractLinksResume(s.linkedin_url, out)
    \/ Respond

(***************************************************************************)
(*                      The HTTP layer: saving a run                       *)
(***************************************************************************)

LeadsAbsent(leads_given, leads) == ~leads_given

\* not request.leads
LeadsMissing(leads_given, leads) == ~leads_given \/ leads = <<>>

SaveReply(endpoint, leads_given, leads, status) ==
    [endpoint |-> endpoint, leads_given |-> leads_given, leads |-> leads,
     status |-> status]

(***************************************************************************)
(* save_to_library and save_run: the same handler under two routes.        *)
(***************************************************************************)
Save(endpoint, leads_given, leads, selected_lead_ids) ==
    /\ response = NoResponse
    /\ IF LeadsMissing(leads_given, leads)
       THEN /\ response' = SaveReply(endpoint, leads_given, leads, 400)
            /\ UNCHANGED <<runs, run_leads, run_seq>>
       ELSE LET t == CreateRunTxn(Db, leads, selected_lead_ids, "success")
            IN /\ run_seq < MaxRuns
               /\ Len(t.db.run_leads) <= MaxRows
               /\ response' = SaveReply(endpoint, leads_given, leads,
                                        IF t.raised THEN 500 ELSE 200)
               /\ runs' = t.db.runs
               /\ run_leads' = t.db.run_leads
               /\ run_seq' = t.db.run_seq
    /\ UNCHANGED <<last, awaiting, clientVars, authVars, scraperVars, cliVars, sessionVars>>

SaveToLibrary(leads_given, leads, selected_lead_ids) ==
    Save("save_to_library", leads_given, leads, selected_lead_ids)

SaveRun(leads_given, leads, selected_lead_ids) ==
    Save("save_run", leads_given, leads, selected_lead_ids)

LibraryNext ==
    \/ /\ response = NoResponse
       /\ \E g \in BOOLEAN, leads \in LeadLists, ids \in SelLists :
             SaveToLibrary(g, IF g THEN leads ELSE <<>>, ids)
    \/ /\ response = NoResponse
       /\ \E g \in BOOLEAN, leads \in LeadLists, ids \in SelLists :
             SaveRun(g, IF g THEN leads ELSE <<>>, ids)
    \/ Respond

(***************************************************************************)
(*                   The HTTP layer: downloading an export                 *)
(***************************************************************************)

MaxPath == 3          \* longest filename of a download request, in components

(***************************************************************************)
(* The file system the server runs on.  A path is the sequence of its      *)
(* components from the root.  "long" is a component longer than the file   *)
(* system allows: looking it up in a directory fails.                      *)
(***************************************************************************)
output_dir == <<"api", "output">>

Dirs == {<<>>, <<"api">>, output_dir}
Files == {<<"api", "output", "leads.csv">>, <<"api", "output", "notes.txt">>,
          <<"api", "secret.csv">>}
Symlinks == {<<"api", "output", "link.csv">>}
LinkTarget(path) == <<"api", "secret.csv">>

FileNames == {"..", "api", "output", "leads.csv", "notes.txt", "secret.csv",
              "link.csv", "long"}
CsvNames == {"leads.csv", "secret.csv", "link.csv"}

(***************************************************************************)
(* The filename of a request: absolute or not, its components, and whether *)
(* it ends in a slash.                                                     *)
(***************************************************************************)
Filenames ==
    {[absolute |-> a, parts |-> ps, slash |-> s] :
        a \in BOOLEAN, ps \in SeqsUpTo(FileNames, MaxPath), s \in BOOLEAN}

\* output_dir / filename
JoinPath(dir, filename) ==
    IF filename.absolute THEN filename.parts ELSE dir \o filename.parts

Parent(path) == IF path = <<>> THEN <<>> ELSE SubSeq(path, 1, Len(path) - 1)

(***************************************************************************)
(* stat() of a path, following symbolic links: the file it names, that     *)
(* there is none, or the error of the lookup.                              *)
(***************************************************************************)
RECURSIVE Walk(_, _)
Walk(cur, rest) ==
    IF rest = <<>> THEN [status |-> "ok", real |-> cur]
    ELSE IF cur \notin Dirs THEN [status |-> "missing", real |-> <<>>]
    ELSE IF Head(rest) = "long" THEN [status |-> "error", real |-> <<>>]
    ELSE IF Head(rest) = ".." THEN Walk(Parent(cur), Tail(rest))
    ELSE LET p == Append(cur, Head(rest))
         IN IF p \in Symlinks THEN Walk(LinkTarget(p), Tail(rest))
            ELSE IF p \in Dirs \cup Files THEN Walk(p, Tail(rest))
            ELSE [status |-> "missing", real |-> <<>>]

Stat(path) == Walk(<<>>, path)

AnyPath(dir, path) == TRUE

\* path.relative_to(dir) does not raise
IsRelativeTo(dir, path) ==
    Len(dir) <= Len(path) /\ SubSeq(path, 1, Len(dir)) = dir

\* filename.endswith('.csv')
EndsWithCsv(filename) ==
    /\ ~filename.slash
    /\ filename.parts # <<>>
    /\ filename.parts[Len(filename.parts)] \in CsvNames

DownloadReply(filename, status, served) ==
    [endpoint |-> "download_file", filename |-> filename, status |-> status,
     served |-> served]

NotServed == <<"nothing">>

DownloadFileReply(filename) ==
    LET st == Stat(JoinPath(output_dir, filename))
    IN IF st.status = "error" THEN DownloadReply(filename, 500, NotServed)
       ELSE IF st.status = "missing" THEN DownloadReply(filename, 404, NotServed)
       ELSE IF ~IsRelativeTo(output_dir, st.real)
       THEN DownloadReply(filename, 403, NotServed)
       ELSE IF ~EndsWithCsv(filename) THEN DownloadReply(filename, 403, NotServed)
       ELSE DownloadReply(filename, 200, st.real)

DownloadFile(filename) ==
    /\ response = NoResponse
    /\ response' = DownloadFileReply(filename)
    /\ UNCHANGED awaiting
    /\ UNCHANGED OtherVarsOfApi

DownloadNext ==
    \/ response = NoResponse /\ \E f \in Filenames : DownloadFile(f)
    \/ Respond

(***************************************************************************)
(*                 The HTTP layer: the auth-status cache                   *)
(***************************************************************************)

MaxRequests == 2      \* auth-status requests in progress at once
MaxTime == 300        \* the clock stops here

ttl == 300

\* how far the clock moves between two steps of the server
TickSteps == {100, 199}

Requests == 1..MaxRequests

\* what check_linkedin_auth returns, by its logged_in entry
CheckResults == {"logged_in", "logged_out"}
CheckOutcomes == CheckResults \cup {"raised"}

EmptyCache == [result |-> "none", timestamp |-> 0]

NoCheck == [busy |-> FALSE, current_time |-> 0, stored |-> "none", age |-> 0,
            after_clear |-> FALSE]

(***************************************************************************)
(* An answer of check_linkedin_auth_status, with what the request saw when *)
(* it arrived: the time, the result in the cache slot and its age, and     *)
(* whether clear-cache had returned since the request before it.           *)
(***************************************************************************)
AuthReply(status, result, cached, at, stored, age, after_clear) ==
    [status |-> status, result |-> result, cached |-> cached, at |-> at,
     stored |-> stored, age |-> age, after_clear |-> after_clear]

NoReply == AuthReply("none", "none", FALSE, 0, "none", 0, FALSE)

AuthInit ==
    /\ auth_cache = EmptyCache
    /\ now = 0
    /\ checks = [p \in Requests |-> NoCheck]
    /\ auth_reply = NoReply
    /\ cleared = FALSE

OtherVarsOfAuth == <<storeVars, clientVars, apiVars, scraperVars, cliVars, sessionVars>>

FreshUpToTtl(cache, current_time) ==
    cache.result # "none" /\ current_time - cache.timestamp <= ttl

\* _linkedin_auth_cache["result"] is not None and
\* current_time - _linkedin_auth_cache["timestamp"] < _linkedin_auth_cache["ttl"]
CacheHit(cache, current_time) ==
    cache.result # "none" /\ current_time - cache.timestamp < ttl

(***************************************************************************)
(* check_linkedin_auth_status up to its await: not configured, answered    *)
(* from the cache, or the checker is started.                              *)
(***************************************************************************)
AuthStatus(p, has_profile) ==
    /\ ~checks[p].busy
    /\ LET age == now - auth_cache.timestamp
       IN IF ~has_profile
          THEN /\ auth_reply' = AuthReply("not_configured", "none", FALSE, now,
                                          auth_cache.result, age, cleared)
               /\ UNCHANGED <<checks, cleared>>
          ELSE IF CacheHit(auth_cache, now)
          THEN /\ auth_reply' = AuthReply("result", auth_cache.result, TRUE, now,
                                          auth_cache.result, age, cleared)
               /\ cleared' = FALSE
               /\ UNCHANGED checks
          ELSE /\ checks' = [checks EXCEPT ![p] =
                                [busy |-> TRUE, current_time |-> now,
                                 stored |-> auth_cache.result, age |-> age,
                                 after_clear |-> cleared]]
               /\ cleared' = FALSE
               /\ UNCHANGED auth_reply
    /\ UNCHANGED <<auth_cache, now>>
    /\ UNCHANGED OtherVarsOfAuth

(***************************************************************************)
(* The checker is done: the result goes to the cache slot with the time    *)
(* the request arrived at, an exception to an error answer.                *)
(***************************************************************************)
AuthStatusChecked(p, outcome) ==
    /\ checks[p].busy
    /\ LET c == checks[p]
       IN IF outcome = "raised"
          THEN /\ auth_reply' = AuthReply("error", "none", FALSE, c.current_time,
                                          c.stored, c.age, c.after_clear)
               /\ UNCHANGED auth_cache
          ELSE /\ auth_cache' = [result |-> outcome, timestamp |-> c.current_time]
               /\ auth_reply' = AuthReply("result", outcome, FALSE, c.current_time,
                                          c.stored, c.age, c.after_clear)
    /\ checks' = [checks EXCEPT ![p] = NoCheck]
    /\ UNCHANGED <<now, cleared>>
    /\ UNCHANGED OtherVarsOfAuth

ClearLinkedInAuthCache ==
    /\ auth_cache' = EmptyCache
    /\ cleared' = TRUE
    /\ UNCHANGED <<now, checks, auth_reply>>
    /\ UNCHANGED OtherVarsOfAuth

Tick(d) ==
    /\ now + d <= MaxTime
    /\ now' = now + d
    /\ UNCHANGED <<auth_cache, checks, auth_reply, cleared>>
    /\ UNCHANGED OtherVarsOfAuth

AuthNext ==
    \/ \E p \in Requests, has_profile \in BOOLEAN : AuthStatus(p, has_profile)
    \/ \E p \in Requests, outcome \in CheckOutcomes : AuthStatusChecked(p, outcome)
    \/ ClearLinkedInAuthCache
    \/ \E d \in TickSteps : Tick(d)

(***************************************************************************)
(*                     The browser scraper: pagination                     *)
(***************************************************************************)

MaxLastPage == 5      \* largest last page number the pagination control shows
MaxPagesArg == 3      \* largest max_pages argument
MaxResultsArg == 2    \* largest max_results argument
MaxPerPage == 2       \* most results taken from one page

ScrapeKinds == {"scrape_linkedin_search", "extract_names_only",
                "extract_profile_links"}

(***************************************************************************)
(* What a result page shows.  A name is the text of an element; an href is *)
(* the sequence of its parts: the profile path, then a query string and a  *)
(* fragment where it has them.                                             *)
(***************************************************************************)
Names == {"Ann Lee", "Bob Roy"}
ProfilePaths == {"/in/ann", "/in/bob"}
QueryParts == {"?x=1"}
FragmentParts == {"#f"}
Hrefs == {<<p>> \o q \o f : p \in ProfilePaths, q \in {<<>>, <<"?x=1">>},
                           f \in {<<>>, <<"#f">>}}

\* an item of the page: its name, and whether scrolling its link into view
\* raises
Entries == {[name |-> n, raises |-> b] : n \in Names, b \in BOOLEAN}
PlainEntries == {e \in Entries : ~e.raises}

(***************************************************************************)
(* The pages a call can meet, by what the page gives the function: the     *)
(* results list with its items (primary), no results list (missing for the *)
(* full scrape, the profile links of the page for the name extractor), a   *)
(* results list without items (no_items), or the profile links themselves. *)
(***************************************************************************)
PagesOf(kind) ==
    IF kind = "extract_profile_links"
    THEN {[path |-> "links", entries |-> es] : es \in SeqsUpTo(Hrefs, MaxPerPage)}
    ELSE IF kind = "extract_names_only"
    THEN {[path |-> p, entries |-> es] :
             p \in {"primary", "no_items"}, es \in SeqsUpTo(PlainEntries, MaxPerPage)}
         \cup {[path |-> "links", entries |-> es] : es \in SeqsUpTo(Entries, MaxPerPage)}
    ELSE {[path |-> "primary", entries |-> es] : es \in SeqsUpTo(PlainEntries, MaxPerPage)}
         \cup {[path |-> "missing", entries |-> <<>>]}

\* text.split(mark)[0], the text being a sequence of parts
SplitFirst(text, marks) ==
    LET at == {i \in DOMAIN text : text[i] \in marks}
    IN IF at = {} THEN text
       ELSE SubSeq(text, 1, (CHOOSE i \in at : \A j \in at : i <= j) - 1)

\* clean_href = href.split("?")[0].split("#")[0]
CleanHref(href) == SplitFirst(SplitFirst(href, QueryParts), FragmentParts)

\* profile_id = clean_href.split("/in/")[1].strip("/")
ProfileId(clean_href) == ("/in/ann" :> "ann" @@ "/in/bob" :> "bob")[clean_href[1]]

(***************************************************************************)
(* extract_profile_links on the links of one page: seen_profile_ids starts *)
(* empty on every page.                                                    *)
(***************************************************************************)
RECURSIVE TakeLinks(_, _, _, _)
TakeLinks(links, profile_links, seen_profile_ids, max_results) ==
    IF links = <<>> \/ Len(profile_links) >= max_results THEN profile_links
    ELSE LET clean_href == CleanHref(Head(links))
             profile_id == ProfileId(clean_href)
         IN IF profile_id \in seen_profile_ids
            THEN TakeLinks(Tail(links), profile_links, seen_profile_ids, max_results)
            ELSE TakeLinks(Tail(links), Append(profile_links, clean_href),
                           seen_profile_ids \cup {profile_id}, max_results)

\* seen_profile_ids = set(), inside the loop over the pages
LinksOfPage(page, profile_links, max_results) ==
    TakeLinks(page.entries, profile_links, {}, max_results)

(***************************************************************************)
(* The items of a results list, for the full scrape and for the primary    *)
(* path of the name extractor: the bound is looked at before every item,   *)
(* and the name is appended as it is.                                      *)
(***************************************************************************)
RECURSIVE TakeResults(_, _, _)
TakeResults(results, names, max_results) ==
    IF results = <<>> \/ Len(names) >= max_results THEN names
    ELSE TakeResults(Tail(results), Append(names, Head(results).name), max_results)

(***************************************************************************)
(* The name extractor on a results list without items: the text of every   *)
(* profile link is appended, and the bound is looked at after that.        *)
(***************************************************************************)
RECURSIVE TakeLinkTexts(_, _, _)
TakeLinkTexts(links, names, max_results) ==
    IF links = <<>> THEN names
    ELSE LET added == Append(names, Head(links).name)
         IN IF Len(added) >= max_results THEN added
            ELSE TakeLinkTexts(Tail(links), added, max_results)

\* if name_text not in names: names.append(name_text)
AddNew(names, name) == IF InList(name, names) THEN names ELSE Append(names, name)

(***************************************************************************)
(* The last resort for a link whose extraction raised: each of the first   *)
(* three ancestors of the link gives the first line of its text that is    *)
(* not in names yet.  The ancestors are html, body and what is below, so   *)
(* their text has the lines of the page.                                   *)
(***************************************************************************)
LastResortAncestors == 3
LastResortLinks == 5

RECURSIVE LastResort(_, _, _)
LastResort(lines, names, ancestors) ==
    LET new == {i \in DOMAIN lines : ~InList(lines[i], names)}
    IN IF ancestors = 0 \/ new = {} THEN names
       ELSE LastResort(lines,
                       Append(names, lines[CHOOSE i \in new : \A j \in new : i <= j]),
                       ancestors - 1)

(***************************************************************************)
(* The name extractor on a page without results list: the profile links    *)
(* one by one, the bound looked at before every link.                      *)
(***************************************************************************)
RECURSIVE TakeNamesOfLinks(_, _, _, _, _)
TakeNamesOfLinks(links, link_idx, lines, names, max_results) ==
    IF links = <<>> \/ Len(names) >= max_results THEN names
    ELSE TakeNamesOfLinks(Tail(links), link_idx + 1, lines,
            IF Head(links).raises
            THEN IF link_idx < LastResortLinks
                 THEN LastResort(lines, names, LastResortAncestors)
                 ELSE names
            ELSE AddNew(names, Head(links).name),
            max_results)

\* the result containers of the page, when the links gave fewer names than
\* there are links
RECURSIVE TakeContainers(_, _, _)
TakeContainers(containers, names, max_results) ==
    IF containers = <<>> \/ Len(names) >= max_results THEN names
    ELSE TakeContainers(Tail(containers), AddNew(names, Head(containers).name),
                        max_results)

NamesOfPage(page, names, max_results) ==
    IF page.path = "primary" THEN TakeResults(page.entries, names, max_results)
    ELSE IF page.path = "no_items" THEN TakeLinkTexts(page.entries, names, max_results)
    ELSE LET lines == [i \in DOMAIN page.entries |-> page.entries[i].name]
             by_links == TakeNamesOfLinks(page.entries, 0, lines, names, max_results)
         IN IF Len(by_links) - Len(names) < Len(page.entries)
            THEN TakeContainers(page.entries, by_links, max_results)
            ELSE by_links

\* scrape_linkedin_search skips a page without results list
PeopleOfPage(page, people, max_results) ==
    IF page.path = "primary" THEN TakeResults(page.entries, people, max_results)
    ELSE people

ResultsOfPage(kind, page, results, max_results) ==
    IF kind = "extract_profile_links" THEN LinksOfPage(page, results, max_results)
    ELSE IF kind = "extract_names_only" THEN NamesOfPage(page, results, max_results)
    ELSE PeopleOfPage(page, results, max_results)

Idle ==
    [pc |-> "idle", kind |-> "none", found |-> FALSE, last_page_number |-> 0,
     max_pages |-> 0, max_results |-> 0, total_pages |-> 0, current_page |-> 0,
     iteration |-> 0, results |-> <<>>, requested |-> <<>>,
     driver |-> "none", raised |-> FALSE, returned |-> <<>>]

ScraperInit == scrape = Idle

OtherVarsOfScraper == <<storeVars, clientVars, apiVars, authVars, cliVars, sessionVars>>

TotalPagesUnbounded(found, last_page_number, max_pages) ==
    IF found THEN last_page_number ELSE 1

\* total_pages: min(last_page_number, max_pages), or 1 when the pagination
\* list is not found
TotalPages(found, last_page_number, max_pages) ==
    IF found THEN Min(last_page_number, max_pages) ELSE 1

\* for _ in range(total_pages): if len(...) >= max_results: break
LoopGoesOn(s) ==
    s.iteration < s.total_pages /\ Len(s.results) < s.max_results

AfterIteration(s) == [s EXCEPT !.pc = IF LoopGoesOn(s) THEN "loop" ELSE "done"]

(***************************************************************************)
(* The call up to its loop: the driver is created and its window          *)
(* maximized, the search URL (page 1) is loaded and scrolled, and the      *)
(* pagination list is read.  When webdriver.Firefox raises there is no     *)
(* driver; when maximize_window raises no page was requested; when loading *)
(* or scrolling the page raises page 1 was.  In each case the except block *)
(* returns the empty list.                                                 *)
(***************************************************************************)
ScrapeOpen(kind, driver_ok, window_ok, first_ok, found, last_page_number, max_pages, max_results) ==
    /\ scrape.pc = "idle"
    /\ scrape' =
          IF ~driver_ok
          THEN [Idle EXCEPT !.pc = "done", !.kind = kind, !.max_pages = max_pages,
                            !.max_results = max_results, !.raised = TRUE]
          ELSE IF ~window_ok
          THEN [Idle EXCEPT !.pc = "done", !.kind = kind, !.max_pages = max_pages,
                            !.max_results = max_results, !.raised = TRUE,
                            !.driver = "open"]
          ELSE IF ~first_ok
          THEN [Idle EXCEPT !.pc = "done", !.kind = kind, !.max_pages = max_pages,
                            !.max_results = max_results, !.raised = TRUE,
                            !.driver = "open", !.requested = <<1>>]
          ELSE AfterIteration(
                 [Idle EXCEPT
                    !.pc = "loop", !.kind = kind, !.found = found,
                    !.last_page_number = IF found THEN last_page_number ELSE 0,
                    !.max_pages = max_pages, !.max_results = max_results,
                    !.total_pages = TotalPages(found, last_page_number, max_pages),
                    !.current_page = 1, !.driver = "open", !.requested = <<1>>])
    /\ UNCHANGED OtherVarsOfScraper

(***************************************************************************)
(* One iteration of the loop: the page is loaded unless it is the first,   *)
(* results are taken from it, current_page goes up by one.  The statements *)
(* of an iteration that no try guards come before the first result of the  *)
(* page is appended: the load of a page after the first, the scrolling,    *)
(* the look at the URL and title of a page without results list, and       *)
(* find_elements on the results list.  When one of them raises, in the     *)
(* first iteration or a later one, the except block of the function        *)
(* returns what the pages before gave.                                     *)
(***************************************************************************)
ScrapePage(page_ok, page) ==
    /\ scrape.pc = "loop"
    /\ LET loads == scrape.current_page > 1
           requested == IF loads THEN Append(scrape.requested, scrape.current_page)
                        ELSE scrape.requested
       IN scrape' =
            IF ~page_ok
            THEN [scrape EXCEPT !.pc = "done", !.requested = requested,
                                !.raised = TRUE]
            ELSE AfterIteration(
                   [scrape EXCEPT
                      !.requested = requested,
                      !.results = ResultsOfPage(scrape.kind, page, scrape.results,
                                                scrape.max_results),
                      !.current_page = scrape.current_page + 1,
                      !.iteration = scrape.iteration + 1])
    /\ UNCHANGED OtherVarsOfScraper

QuitSkipped(driver) == driver

\* finally: if driver: driver.quit()
AfterFinally(driver) == IF driver = "open" THEN "quit" ELSE driver

\* the return statement has its value, the finally block runs, the call
\* returns
ScrapeClose ==
    /\ scrape.pc = "done"
    /\ scrape' = [scrape EXCEPT !.pc = "returned",
                                !.returned = scrape.results,
                                !.driver = AfterFinally(scrape.driver)]
    /\ UNCHANGED OtherVarsOfScraper

\* the caller has the list; the next call can start
ScrapeEnd ==
    /\ scrape.pc = "returned"
    /\ scrape' = Idle
    /\ UNCHANGED OtherVarsOfScraper

ScraperNext ==
    \/ \E kind \in ScrapeKinds, driver_ok \in BOOLEAN, window_ok \in BOOLEAN,
          first_ok \in BOOLEAN, found \in BOOLEAN,
          last_page_number \in 1..MaxLastPage, max_pages \in 0..MaxPagesArg,
          max_results \in 0..MaxResultsArg :
          ScrapeOpen(kind, driver_ok, window_ok, first_ok, found, last_page_number,
                     max_pages, max_results)
    \/ \E page_ok \in BOOLEAN, page \in PagesOf(scrape.kind) : ScrapePage(page_ok, page)
    \/ ScrapeClose
    \/ ScrapeEnd

(***************************************************************************)
(*                     The quick-extraction script                         *)
(***************************************************************************)

MaxArgs == 3          \* most arguments after the URL

default_max_results == 50
default_max_pages == 1

\* int(arg) for the arguments it accepts; it raises ValueError for the rest
IntValue == [a \in {"50", "5", "100", "1", "0"} |->
               CASE a = "50" -> 50 [] a = "5" -> 5 [] a = "100" -> 100
                 [] a = "1" -> 1 [] a = "0" -> 0]

IsInt(arg) == arg \in DOMAIN IntValue

ArgTokens == DOMAIN IntValue \cup {"--save", "--export", "abc", "5.5"}
ArgLists == SeqsUpTo(ArgTokens, MaxArgs)

Parsed(max_results, max_pages, save_files) ==
    [max_results |-> max_results, max_pages |-> max_pages, save_files |-> save_files]

\* the body of: for arg in sys.argv[2:]
ParseArg(st, arg) ==
    IF arg \in {"--save", "--export"} THEN [st EXCEPT !.save_files = TRUE]
    ELSE IF ~IsInt(arg) THEN st
    ELSE IF st.max_results = default_max_results
    THEN [st EXCEPT !.max_results = IntValue[arg]]
    ELSE IF st.max_pages = default_max_pages
    THEN [st EXCEPT !.max_pages = IntValue[arg]]
    ELSE st

RECURSIVE ParseArgs(_, _)
ParseArgs(st, args) ==
    IF args = <<>> THEN st ELSE ParseArgs(ParseArg(st, Head(args)), Tail(args))

NotRun == [exit |-> "none", args |-> <<>>,
           parsed |-> Parsed(default_max_results, default_max_pages, FALSE)]

CliInit == cli = NotRun

\* main() up to the call of the extractor
Main(has_url, args) ==
    /\ cli = NotRun
    /\ cli' = IF ~has_url
              THEN [NotRun EXCEPT !.exit = "usage"]
              ELSE [exit |-> "extract", args |-> args,
                    parsed |-> ParseArgs(Parsed(default_max_results,
                                                default_max_pages, FALSE), args)]
    /\ UNCHANGED <<storeVars, clientVars, apiVars, authVars, scraperVars, sessionVars>>

\* the process ends; the script can be run again
Exit ==
    /\ cli # NotRun
    /\ cli' = NotRun
    /\ UNCHANGED <<storeVars, clientVars, apiVars, authVars, scraperVars, sessionVars>>

CliNext ==
    \/ /\ cli = NotRun
       /\ \E has_url \in BOOLEAN, args \in ArgLists :
             Main(has_url, IF has_url THEN args ELSE <<>>)
    \/ Exit

(***************************************************************************)
(*            The cookie fast path of the Firefox auth check               *)
(***************************************************************************)

MaxCookies == 2       \* most rows the cookie query returns

Day == 86400
MicrosPerSecond == 1000000

\* 1000000000000000 microseconds, in seconds
MicroThresholdSeconds == 1000000000

\* time.time(), in seconds
Times == {1800000000}

\* how far from now the cookies of the profile expire, in seconds
ExpiryOffsets == {0 - 2 * Day, 0 - 3600, 3600, 2 * Day}

(***************************************************************************)
(* Column expiry of moz_cookies: NULL or 0 (unit none), or a number, which *)
(* the profile wrote in seconds or in microseconds.  The number is kept as *)
(* its whole seconds and its unit; in microseconds it is secs * 1000000.   *)
(***************************************************************************)
NoExpiry == [unit |-> "none", secs |-> 0]

Expiries(t) ==
    {NoExpiry} \cup {[unit |-> u, secs |-> t + d] : u \in {"s", "us"}, d \in ExpiryOffsets}

CookieNames == {"li_at", "JSESSIONID"}

\* expiry > 1000000000000000
IsMicroseconds(expiry) ==
    expiry.unit = "us" /\ expiry.secs > MicroThresholdSeconds

\* if expiry > 1000000000000000: expiry = expiry / 1000000
ExpirySeconds(expiry) ==
    IF IsMicroseconds(expiry) THEN expiry.secs
    ELSE IF expiry.unit = "us" THEN expiry.secs * MicrosPerSecond
    ELSE expiry.secs

\* a.expiry >= b.expiry as SQLite orders the column, NULL below every number
ExpiryAtLeast(a, b) ==
    IF b.unit = "none" THEN TRUE
    ELSE IF a.unit = "none" THEN FALSE
    ELSE IF a.unit = b.unit THEN a.secs >= b.secs
    ELSE IF a.unit = "us" THEN a.secs >= (b.secs + MicrosPerSecond - 1) \div MicrosPerSecond
    ELSE a.secs \div MicrosPerSecond >= b.secs

\* the rows of the query: ORDER BY expiry DESC
CookieRows(t) ==
    {rows \in SeqsUpTo([name : CookieNames, expiry : Expiries(t)], MaxCookies) :
        \A i \in 1..(Len(rows) - 1) : ExpiryAtLeast(rows[i].expiry, rows[i + 1].expiry)}

\* if expiry > (time.time() - 86400)
NotExpired(expiry, t) == ExpirySeconds(expiry) > t - Day

\* for cookie in cookies: ... and what follows the loop
RECURSIVE ScanCookies(_, _, _)
ScanCookies(cookies, li_at_found, t) ==
    IF cookies = <<>>
    THEN IF li_at_found THEN "inconclusive" ELSE "not_logged_in"
    ELSE IF Head(cookies).name = "li_at"
    THEN IF Head(cookies).expiry.unit = "none" THEN "logged_in"
         ELSE IF NotExpired(Head(cookies).expiry, t) THEN "logged_in"
         ELSE ScanCookies(Tail(cookies), TRUE, t)
    ELSE ScanCookies(Tail(cookies), li_at_found, t)

\* check_linkedin_cookies_fast: None is the inconclusive result
CheckLinkedInCookiesFast(readable, cookies, t) ==
    IF ~readable THEN "inconclusive"
    ELSE IF cookies = <<>> THEN "not_logged_in"
    ELSE ScanCookies(cookies, FALSE, t)

NotChecked ==
    [done |-> FALSE, readable |-> FALSE, cookies |-> <<>>, time |-> 0,
     result |-> "none", browser |-> FALSE]

CookieInit == fast = NotChecked

\* check_linkedin_auth up to the browser check: the browser check runs
\* when the fast path gave no result
CheckCookies(readable, cookies, t) ==
    /\ fast = NotChecked
    /\ LET cookie_result == CheckLinkedInCookiesFast(readable, cookies, t)
       IN fast' = [done |-> TRUE, readable |-> readable, cookies |-> cookies,
                   time |-> t, result |-> cookie_result,
                   browser |-> cookie_result = "inconclusive"]
    /\ UNCHANGED <<storeVars, clientVars, apiVars, authVars, scraperVars, cliVars,
                   cookie_file, local>>

CheckCookiesEnd ==
    /\ fast # NotChecked
    /\ fast' = NotChecked
    /\ UNCHANGED <<storeVars, clientVars, apiVars, authVars, scraperVars, cliVars,
                   cookie_file, local>>

CookieNext ==
    \/ /\ fast = NotChecked
       /\ \E readable \in BOOLEAN, t \in Times : \E cookies \in CookieRows(t) :
             CheckCookies(readable, cookies, t)
    \/ CheckCookiesEnd

(***************************************************************************)
(*              The local session manager and its cookie file              *)
(***************************************************************************)

MaxJar == 2           \* most cookies of a cookie list

\* a cookie list is the sequence of its LinkedIn cookies
CookieLists == SeqsUpTo({"li_at=old", "li_at=new"}, MaxJar)

\* COOKIE_FILE: missing, or the JSON list it holds
NoFile == [exists |-> FALSE, cookies |-> <<>>]
FileOf(cookies) == [exists |-> TRUE, cookies |-> cookies]

\* load_cookies: None (the empty list here) when the file is missing
LoadCookies(file) == IF file.exists THEN file.cookies ELSE <<>>

\* save_cookies: open(COOKIE_FILE, 'w') and json.dump; when the file cannot
\* be opened the exception is caught and the file stays
SaveCookies(file, cookies, write_ok) == IF write_ok THEN FileOf(cookies) ELSE file

(***************************************************************************)
(* What the browser shows a check: whether the cookies could be   *)
(* added, whether the feed loaded, the URL it ended on, the markers in the *)
(* page, and where the second navigation to the feed ended.                *)
(***************************************************************************)
Observations ==
    [add_ok : BOOLEAN, goto_ok : BOOLEAN, url : {"feed", "login", "challenge", "other"},
     content_ok : BOOLEAN, login_indicators : BOOLEAN, feed_indicators : BOOLEAN,
     feed_element : BOOLEAN, second : {"feed", "login", "error"}]

\* is_logged_in after the first navigation; "false" where the function
\* returns at once
FirstVerdict(obs) ==
    IF obs.url \in {"login", "challenge"} THEN "false"
    ELSE IF ~obs.content_ok THEN (IF obs.url = "feed" THEN "true" ELSE "false")
    ELSE IF obs.login_indicators /\ ~obs.feed_indicators THEN "false"
    ELSE IF obs.url = "feed" /\ obs.feed_indicators THEN "true"
    ELSE IF obs.url = "feed" THEN (IF obs.feed_element THEN "true" ELSE "false")
    ELSE "false"

\* the verdict of the browser session: the second navigation rejects a
\* session bounced to the login page
Verdict(obs) ==
    IF ~obs.add_ok THEN "add_error"
    ELSE IF ~obs.goto_ok THEN "goto_error"
    ELSE IF FirstVerdict(obs) = "true" /\ obs.second = "login" THEN "false"
    ELSE FirstVerdict(obs)

NoLocal ==
    [op |-> "none", result |-> "none", file_before |-> NoFile, verified |-> <<>>,
     navigated |-> FALSE, wait |-> "none", url |-> "none"]

SessionInit == cookie_file = NoFile /\ local = NoLocal

OtherVarsOfSession ==
    <<storeVars, clientVars, apiVars, authVars, scraperVars, cliVars, fast>>

(***************************************************************************)
(* check_linkedin_login_status_local: logged_in is true, false or None;    *)
(* the function has no call of save_cookies.                               *)
(***************************************************************************)
CheckLoginStatusLocal(playwright, browser_cookie3, browser_cookies, obs) ==
    /\ local = NoLocal
    /\ LET saved_cookies == LoadCookies(cookie_file)
           cookies == IF browser_cookies # <<>> THEN browser_cookies ELSE saved_cookies
           v == Verdict(obs)
           judged == playwright /\ browser_cookie3 /\ cookies # <<>>
                        /\ v \in {"true", "false"}
           logged_in == IF ~playwright \/ ~browser_cookie3 THEN "none"
                        ELSE IF cookies = <<>> THEN "false"
                        ELSE IF v = "add_error" THEN "false"
                        ELSE IF v = "goto_error" THEN "none"
                        ELSE v
       IN /\ local' = [op |-> "check_linkedin_login_status_local",
                       result |-> logged_in, file_before |-> cookie_file,
                       verified |-> IF logged_in = "true" THEN cookies ELSE <<>>,
                       navigated |-> FALSE, wait |-> "none",
                       url |-> IF judged THEN obs.url ELSE "none"]
          /\ UNCHANGED cookie_file
    /\ UNCHANGED OtherVarsOfSession

(***************************************************************************)
(* check_linkedin_login_local: True, False or None; on True the LinkedIn   *)
(* cookies of the context are saved when there are any.                    *)
(***************************************************************************)
CheckLoginLocal(installed, obs, fresh_cookies, write_ok) ==
    /\ local = NoLocal
    /\ LET cookies == LoadCookies(cookie_file)
           v == Verdict(obs)
           is_logged_in == IF ~installed THEN "none"
                           ELSE IF cookies = <<>> THEN "none"
                           ELSE IF v \in {"add_error", "goto_error"} THEN "none"
                           ELSE v
       IN /\ local' = [op |-> "check_linkedin_login_local",
                       result |-> is_logged_in, file_before |-> cookie_file,
                       verified |-> IF is_logged_in = "true" THEN fresh_cookies ELSE <<>>,
                       navigated |-> FALSE, wait |-> "none",
                       url |-> IF is_logged_in \in {"true", "false"}
                               THEN obs.url ELSE "none"]
          /\ cookie_file' = IF is_logged_in = "true" /\ fresh_cookies # <<>>
                            THEN SaveCookies(cookie_file, fresh_cookies, write_ok)
                            ELSE cookie_file
    /\ UNCHANGED OtherVarsOfSession

\* the wait for **/feed/** timed out and "/login" in page.url
LoginFailed(wait, url) == wait = "timeout" /\ url = "login"

(***************************************************************************)
(* login_and_save_cookies: the wait for the feed URL ends in time or times *)
(* out, and url is where the page is then.                                 *)
(***************************************************************************)
LoginAndSaveCookies(installed, browser_ok, wait, url, cookies, write_ok) ==
    /\ local = NoLocal
    /\ LET saves == installed /\ browser_ok /\ ~LoginFailed(wait, url) /\ cookies # <<>>
       IN /\ local' = [op |-> "login_and_save_cookies",
                       result |-> IF saves THEN "success" ELSE "failure",
                       file_before |-> cookie_file,
                       verified |-> IF saves THEN cookies ELSE <<>>,
                       navigated |-> installed /\ browser_ok /\ wait = "feed",
                       wait |-> IF installed /\ browser_ok THEN wait ELSE "none",
                       url |-> IF installed /\ browser_ok THEN url ELSE "none"]
          /\ cookie_file' = IF saves THEN SaveCookies(cookie_file, cookies, write_ok)
                            ELSE cookie_file
    /\ UNCHANGED OtherVarsOfSession

\* the caller has the result; the next call can start
LocalEnd ==
    /\ local # NoLocal
    /\ local' = NoLocal
    /\ UNCHANGED cookie_file
    /\ UNCHANGED OtherVarsOfSession

SessionNext ==
    \/ /\ local = NoLocal
       /\ \E playwright \in BOOLEAN, browser_cookie3 \in BOOLEAN,
             browser_cookies \in CookieLists, obs \in Observations :
             CheckLoginStatusLocal(playwright, browser_cookie3, browser_cookies, obs)
    \/ /\ local = NoLocal
       /\ \E installed \in BOOLEAN, obs \in Observations, fresh_cookies \in CookieLists,
             write_ok \in BOOLEAN :
             CheckLoginLocal(installed, obs, fresh_cookies, write_ok)
    \/ /\ local = NoLocal
       /\ \E installed \in BOOLEAN, browser_ok \in BOOLEAN, wait \in {"feed", "timeout"},
             url \in {"feed", "login", "challenge", "other"}, cookies \in CookieLists,
             write_ok \in BOOLEAN :
             LoginAndSaveCookies(installed, browser_ok,
                                 wait, IF wait = "feed" THEN "feed" ELSE url,
                                 cookies, write_ok)
    \/ LocalEnd

(***************************************************************************)
(* Specifications: one per part of the program, the other parts at rest.   *)
(***************************************************************************)
ApiInit == response = NoResponse /\ awaiting = EmptyBag

Init ==
    /\ StoreInit /\ ClientInit /\ ApiInit /\ AuthInit /\ ScraperInit /\ CliInit
    /\ CookieInit /\ SessionInit

StoreSpec == Init /\ [][StoreNext]_vars

ClientSpec == Init /\ [][ClientNext]_vars

(***************************************************************************)
(* The thread running search_linkedin_profiles keeps running: every sleep  *)
(* returns and every request ends, by its answer or its 30 second timeout. *)
(***************************************************************************)
ClientLiveSpec ==
    /\ ClientSpec
    /\ WF_vars(\E r \in FetchOutcomes : Poll(r))
    /\ WF_vars(\E r \in FetchOutcomes : TimeoutFetch(r))
    /\ WF_vars(\E r \in FetchOutcomes : Recheck(r))

CaptureSpec == Init /\ [][CaptureNext]_vars

LibrarySpec == Init /\ [][LibraryNext]_vars

DownloadSpec == Init /\ [][DownloadNext]_vars

(***************************************************************************)
(* The server as a whole: the handlers of all routes on one event loop, a  *)
(* save or a download running while a capture handler is suspended.        *)
(***************************************************************************)
ServerNext == CaptureNext \/ LibraryNext \/ DownloadNext

ServerSpec == Init /\ [][ServerNext]_vars

AuthSpec == Init /\ [][AuthNext]_vars

ScraperSpec == Init /\ [][ScraperNext]_vars

CliSpec == Init /\ [][CliNext]_vars

CookieSpec == Init /\ [][CookieNext]_vars

SessionSpec == Init /\ [][SessionNext]_vars

(***************************************************************************)
(*                         Properties of the store                         *)
(***************************************************************************)
LeadIdsOf(rows) == [i \in DOMAIN rows |-> rows[i].lead_id]

SelectedRows(db, run_id) ==
    {i \in DOMAIN db.run_leads :
        db.run_leads[i].run_id = run_id /\ db.run_leads[i].is_selected = 1}

Distinct(s) == \A i, j \in DOMAIN s : i # j => s[i] # s[j]

(* C1: after delete_run returns True, get_run_leads of that run id is     *)
(* empty, for selected_only False and True.                                *)
C1_DeleteRemovesLeads ==
    (last.op = "delete_run" /\ last.result = "true") =>
        /\ GetRunLeads(Db, last.run_id, FALSE) = <<>>
        /\ GetRunLeads(Db, last.run_id, TRUE) = <<>>

(* C2: every persisted runs row has selected_leads <= total_leads.         *)
C2_SelectedAtMostTotal ==
    \A r \in runs : r.selected_leads <= r.total_leads

(* C3: a create_run call that raises leaves the runs table, the run_leads  *)
(* table and the id counter exactly as they were before the call, and a    *)
(* call that returns was given leads with distinct ids.                    *)
C3_CreateRunAllOrNothing ==
    [][last'.op = "create_run" =>
          IF last'.result = "raised"
          THEN runs' = runs /\ run_leads' = run_leads /\ run_seq' = run_seq
          ELSE last'.result = "returned" /\ Distinct(last'.leads)]_vars

C3_Witness ==
    /\ last.op = "create_run"
    /\ last.result = "raised"
    /\ runs # {}

(* C4: no two rows of run_leads have the same (run_id, lead_id).           *)
C4_UniqueRunLead ==
    \A i, j \in DOMAIN run_leads :
        i # j => \/ run_leads[i].run_id # run_leads[j].run_id
                 \/ run_leads[i].lead_id # run_leads[j].lead_id

C4_Witness ==
    /\ last.op = "create_run"
    /\ last.result = "raised"
    /\ Len(run_leads) >= 2

(* C5: every persisted run with status 'failed' has total_leads = 0 and no *)
(* run_leads rows.                                                         *)
C5_FailedRunHasNoLeads ==
    \A r \in runs :
        r.status = "failed" =>
            r.total_leads = 0 /\ GetRunLeads(Db, r.id, FALSE) = <<>>

(* C6: after update_run_selections(run_id, ids) on an existing run, every  *)
(* lead of the run has is_selected = 1 if its id is in ids and 0 if not,   *)
(* runs.selected_leads = len(ids), and a second call with the same         *)
(* arguments changes nothing.                                              *)
C6_UpdateSelectionsIdempotent ==
    (last.op = "update_run_selections" /\ last.result = "true") =>
        LET run_id == last.run_id
            ids == last.selected_lead_ids
        IN /\ \A i \in DOMAIN run_leads :
                 run_leads[i].run_id = run_id =>
                    run_leads[i].is_selected =
                       (IF InList(run_leads[i].lead_id, ids) THEN 1 ELSE 0)
           /\ RunRow(Db, run_id).selected_leads = Len(ids)
           /\ UpdateSelectionsTxn(Db, run_id, ids).db = Db

C6_Witness ==
    /\ last.op = "update_run_selections"
    /\ last.result = "true"
    /\ \E i, j \in DOMAIN run_leads :
          /\ run_leads[i].run_id = last.run_id
          /\ run_leads[j].run_id = last.run_id
          /\ run_leads[i].is_selected = 1
          /\ run_leads[j].is_selected = 0

(* C7: after create_run returns id for leads L (distinct ids) and          *)
(* selection S, get_run(id) has total_leads = len(L) and selected_leads =  *)
(* len(S), get_run_leads(id) is the leads of L, and get_run_leads(id,      *)
(* selected_only) is the leads of L whose id is in S.                      *)
C7_SaveThenRetrieve ==
    (last.op = "create_run" /\ last.result = "returned") =>
        LET got == GetRun(Db, last.run_id)
        IN /\ got.found
           /\ got.run.total_leads = Len(last.leads)
           /\ got.run.selected_leads = Len(last.selected_lead_ids)
           /\ LeadIdsOf(got.leads) = last.leads
           /\ LeadIdsOf(GetRunLeads(Db, last.run_id, FALSE)) = last.leads
           /\ LeadIdsOf(GetRunLeads(Db, last.run_id, TRUE)) =
                 SelectSeq(last.leads, LAMBDA id : InList(id, last.selected_lead_ids))

C7_Witness ==
    /\ last.op = "create_run"
    /\ last.result = "returned"
    /\ LET got == GetRun(Db, last.run_id)
       IN /\ got.found
          /\ got.run.total_leads = 2
          /\ got.run.selected_leads = 1
          /\ LeadIdsOf(got.leads) = <<"a", "b">>
          /\ LeadIdsOf(GetRunLeads(Db, last.run_id, TRUE)) = <<"a">>

(* C8: for every persisted run, runs.selected_leads is the number of its   *)
(* run_leads rows with is_selected = 1.                                    *)
C8_SelectedCountMatchesRows ==
    \A r \in runs : r.selected_leads = Cardinality(SelectedRows(Db, r.id))

(***************************************************************************)
(*                        Properties of the client                         *)
(***************************************************************************)

(* C9: once a get_collection_data call of a search has raised an           *)
(* authentication error, the search is over with that error raised and it  *)
(* has made no fetch after the one that raised it.                         *)
C9_AuthErrorNotRetried ==
    auth_at # 0 =>
        /\ pc = "done"
        /\ search_result = "raised_auth"
        /\ fetches = auth_at

C9_Witness ==
    /\ auth_at >= 3
    /\ pc = "done"
    /\ retry_count >= 2

(* C10: the minimum request interval is 2 until an escalation, never       *)
(* exceeds 30, is at most 10 right after a trigger-path escalation and at  *)
(* most 30 right after a polling-path escalation.                          *)
C10_IntervalBounded ==
    /\ min_request_interval >= InitialInterval
    /\ min_request_interval <= PollingCap
    /\ last_escalation = "none" => min_request_interval = InitialInterval
    /\ last_escalation = "trigger" => min_request_interval <= TriggerCap
    /\ last_escalation = "polling" => min_request_interval <= PollingCap

C10_Witness ==
    /\ last_escalation = "trigger"
    /\ min_request_interval = TriggerCap
    /\ pc = "done"


(***************************************************************************)
(*                       Properties of the HTTP layer                      *)
(***************************************************************************)

CaptureEndpoints == {"find_leads", "extract_names", "extract_links"}

(* C11: a capture request whose linkedin_url is empty or lacks             *)
(* '/search/results/people' gets a structured failure from find-leads,     *)
(* extract-names and extract-links alike: nothing found, total 0, errors   *)
(* not empty, success false where the response has it, status 200, and the *)
(* browser scraper is not invoked: no handler awaits it for such a URL.    *)
C11_InvalidUrlRejected ==
    /\ (/\ response.endpoint \in CaptureEndpoints
        /\ \/ response.linkedin_url = <<>>
           \/ ~Contains(response.linkedin_url, search_path))
       => /\ ~response.scraped
          /\ response.status = 200
          /\ response.count = 0
          /\ response.total = 0
          /\ response.errors > 0
          /\ response.success =
                IF response.endpoint = "find_leads" THEN "absent" ELSE "false"
    /\ \A s \in BagToSet(awaiting) :
          s.linkedin_url # <<>> /\ Contains(s.linkedin_url, search_path)

C11_Witness ==
    /\ response.endpoint = "extract_links"
    /\ response.linkedin_url = <<"https://www.linkedin.com", "/in/someone">>
    /\ response.success = "false"

(* C12: when the scraper behind find-leads fails with a login- or          *)
(* auth-flavoured error, the response has requires_login = true and a      *)
(* login URL.                                                              *)
C12_AuthErrorRequiresLogin ==
    (/\ response.endpoint = "find_leads"
     /\ response.scraped
     /\ response.outcome.raised
     /\ IsAuthText(response.outcome.text))
    => response.requires_login /\ response.login_url # "none"

UnderOutputDir(path) ==
    Len(path) >= 2 /\ path[1] = "api" /\ path[2] = "output"

NamesCsv(filename) ==
    /\ ~filename.slash
    /\ filename.parts # <<>>
    /\ filename.parts[Len(filename.parts)] \in {"leads.csv", "secret.csv", "link.csv"}

Servable(filename) ==
    LET st == Stat(JoinPath(output_dir, filename))
    IN st.status = "ok" /\ UnderOutputDir(st.real) /\ NamesCsv(filename)

(* C13 as claimed: download serves a file only when the resolved path is   *)
(* inside the output directory and the filename ends in '.csv'; any other  *)
(* request gets status 403 or 404 and nothing is served.                   *)
C13_DownloadOnly403Or404 ==
    response.endpoint = "download_file"
    => /\ response.served # NotServed
          => Servable(response.filename) /\ UnderOutputDir(response.served)
       /\ ~Servable(response.filename)
          => response.status \in {403, 404} /\ response.served = NotServed

(* C13 as amended: download serves a file only when the resolved path is   *)
(* inside the output directory and the filename ends in '.csv'; any other  *)
(* request gets status 403, 404 or, when the lookup of the path itself     *)
(* fails, 500, and nothing is served.                                      *)
C13_DownloadContained ==
    response.endpoint = "download_file"
    => /\ response.served # NotServed
          => Servable(response.filename) /\ UnderOutputDir(response.served)
       /\ ~Servable(response.filename)
          => /\ response.status \in {403, 404, 500}
             /\ response.served = NotServed
             /\ response.status = 500
                  <=> Stat(JoinPath(output_dir, response.filename)).status = "error"

C13_Witness ==
    /\ response.endpoint = "download_file"
    /\ response.filename.parts = <<"..", "secret.csv">>
    /\ ~response.filename.absolute
    /\ response.status = 403

(* C17: save-to-library and save-run with leads absent or empty answer 400 *)
(* and leave tables runs and run_leads (and the id sequence) as they were. *)
C17_SaveWithoutLeadsRejected ==
    [][(/\ response = NoResponse
        /\ response'.endpoint \in {"save_to_library", "save_run"}
        /\ (~response'.leads_given \/ response'.leads = <<>>))
       => /\ response'.status = 400
          /\ runs' = runs
          /\ run_leads' = run_leads
          /\ run_seq' = run_seq]_vars

C17_Witness ==
    /\ response.endpoint = "save_run"
    /\ response.status = 400
    /\ response.leads_given
    /\ runs # {}


(***************************************************************************)
(*                        Properties of the scraper                        *)
(***************************************************************************)

Max(a, b) == IF a > b THEN a ELSE b

Pages1ToK(requested) == \A i \in DOMAIN requested : requested[i] = i

PageBound(s) == IF s.found THEN Min(s.last_page_number, s.max_pages) ELSE 1

FivePagesMaxTwo(s) ==
    (/\ s.pc = "done"
     /\ s.found
     /\ s.last_page_number = 5
     /\ s.max_pages = 2
     /\ Len(s.results) < s.max_results)
    => s.requested = <<1, 2>>

FivePagesMaxTwoNoException(s) ==
    (/\ s.pc = "done"
     /\ ~s.raised
     /\ s.found
     /\ s.last_page_number = 5
     /\ s.max_pages = 2
     /\ Len(s.results) < s.max_results)
    => s.requested = <<1, 2>>

C15_CachedExactlyWhenFresh ==
    [][/\ (auth_reply' # auth_reply /\ auth_reply'.status \in {"result", "error"})
          => /\ auth_reply'.cached
                  <=> (auth_reply'.stored # "none" /\ auth_reply'.age < 300)
             /\ auth_reply'.cached
                  => /\ auth_reply'.result = auth_reply'.stored
                     /\ checks' = checks
                     /\ auth_cache' = auth_cache
             /\ ~auth_reply'.cached
                  => \E p \in Requests : checks[p].busy /\ ~checks'[p].busy
             /\ (~auth_reply'.cached /\ auth_reply'.status = "result")
                  => auth_cache' = [result |-> auth_reply'.result,
                                    timestamp |-> auth_reply'.at]
       /\ \A p \in Requests :
            (~checks[p].busy /\ checks'[p].busy)
            => ~(auth_cache.result # "none" /\ now - auth_cache.timestamp < 300)
      ]_vars

C15_Witness ==
    /\ auth_reply.cached
    /\ auth_reply.age = 299
    /\ auth_reply.result = "logged_in"

(* C16: after clear-cache has returned, the next auth-status request with  *)
(* a profile configured is not answered from the cache, whatever requests  *)
(* were in progress when the cache was cleared.                            *)
C16_FreshAfterClear ==
    (auth_reply.after_clear /\ auth_reply.status \in {"result", "error"})
    => ~auth_reply.cached

(***************************************************************************)
(*                   More properties of the collector client               *)
(***************************************************************************)

(* C18: no operation of the client sends a request unless both the API     *)
(* token and the collector id are set; without one of them it returns an   *)
(* empty or absent result, sends nothing and does not raise.               *)
C18_NoRequestWithoutCredentials ==
    call.op # "none"
    => /\ call.requested => (call.has_token /\ call.has_collector)
       /\ (~call.has_token \/ ~call.has_collector)
            => call.result \in {"none", "empty"}

(* C19: search_linkedin_profiles ends: no poll starts once elapsed_time    *)
(* has reached 300, after the loop there is the fetch for partial results  *)
(* and then at most the re-check, one fetch each, and every call that      *)
(* polls returns or raises in the end.                                     *)
C19_SearchTerminates ==
    /\ [](pc = "poll" => elapsed_time < 300)
    /\ [][/\ pc = "timeout" => (pc' \in {"recheck", "done"} /\ fetches' = fetches + 1)
          /\ pc = "recheck" => (pc' = "done" /\ fetches' = fetches + 1)
          /\ pc = "done" => pc' = "idle"]_vars
    /\ (pc \in {"poll", "timeout", "recheck"}) ~> (pc = "done")

C19_Witness ==
    /\ pc = "done"
    /\ elapsed_time >= 300
    /\ search_result = "empty"
    /\ fetches >= 3

(***************************************************************************)
(*                 Properties of the quick-extraction script               *)
(***************************************************************************)

(* C20: the first argument after the URL that parses as an integer becomes *)
(* max_results and the second becomes max_pages, whatever their values;    *)
(* flags and other arguments do not take a position.                       *)
C20_PositionalIntegers ==
    cli.exit = "extract"
    => LET ints == SelectSeq(cli.args, IsInt)
       IN /\ Len(ints) >= 1 => cli.parsed.max_results = IntValue[ints[1]]
          /\ Len(ints) >= 2 => cli.parsed.max_pages = IntValue[ints[2]]
          /\ Len(ints) = 0
               => /\ cli.parsed.max_results = 50
                  /\ cli.parsed.max_pages = 1

(* C21: a search re-raises a rate limit error out of its polling loop only *)
(* after the loop has caught max_retries rate limit errors in that call,   *)
(* each of the earlier ones followed by another poll, whatever the number  *)
(* of empty polls and other errors before them.                            *)
C21_RateLimitRetriesCounted ==
    (pc = "done" /\ search_result = "raised_rate" /\ elapsed_time < max_wait_time)
    => rate_limits >= max_retries

(* C22: for a list response with at least one item that has no error       *)
(* field, get_collection_data raises nothing and returns exactly those     *)
(* items, wherever the error items are in the list.                        *)
C22_ErrorItemsFiltered ==
    (/\ call.op = "get_collection_data"
     /\ call.has_token
     /\ call.data.kind = "list"
     /\ \E i \in 1..Len(call.data.items) : call.data.items[i].kind = "valid")
    => /\ ~call.outcome.raised
       /\ ~call.outcome.none
       /\ call.outcome.items =
             SelectSeq(call.data.items, LAMBDA it : it.kind = "valid")

(***************************************************************************)
(*                       More properties of the store                      *)
(***************************************************************************)

(* C30: update_run_selections changes only the rows of its run: the rows   *)
(* of every other run in runs and run_leads stay as they were, also where  *)
(* they carry the same lead ids, and a call for a run id that has no runs  *)
(* row returns false and changes nothing in either table.                  *)
C30_UpdateTouchesOnlyItsRun ==
    [][(last = NoCall /\ last'.op = "update_run_selections")
       => /\ {r \in runs' : r.id # last'.run_id} = {r \in runs : r.id # last'.run_id}
          /\ Len(run_leads') = Len(run_leads)
          /\ \A i \in DOMAIN run_leads :
                run_leads[i].run_id # last'.run_id => run_leads'[i] = run_leads[i]
          /\ last'.result = "false" => (runs' = runs /\ run_leads' = run_leads)]_vars

(***************************************************************************)
(*                    More properties of the scraper                       *)
(***************************************************************************)

(* C23: the names list of extract_names_only never holds the same name     *)
(* twice, on the primary path and on every fallback path, over all the     *)
(* pages of the call.                                                      *)
C23_NamesDistinct ==
    scrape.kind = "extract_names_only" => Distinct(scrape.results)

(* C24: the links list of extract_profile_links never holds two URLs with  *)
(* the same profile id, over all the pages of the call, and no URL in it   *)
(* has a query string or a fragment.                                       *)
C24_LinksDistinctAndClean ==
    scrape.kind = "extract_profile_links"
    => /\ \A i, j \in DOMAIN scrape.results :
             i # j => ProfileId(scrape.results[i]) # ProfileId(scrape.results[j])
       /\ \A i \in DOMAIN scrape.results : \A k \in DOMAIN scrape.results[i] :
             scrape.results[i][k] \notin QueryParts \cup FragmentParts

(* C28: a call that created a browser session has quit it when it returns, *)
(* on the normal path and after an exception at any later step; the        *)
(* session is open only while the call is in its try block, and a call     *)
(* ended by an exception returns the results it had gathered.              *)
C28_SessionQuitBeforeReturn ==
    /\ [](/\ scrape.pc = "returned"
             => (scrape.driver # "open" /\ scrape.returned = scrape.results)
          /\ scrape.driver = "open" => scrape.pc \in {"loop", "done"}
          /\ scrape.pc = "idle" => scrape.driver = "none")
    /\ [][(scrape.pc = "loop" /\ scrape'.raised)
             => (scrape'.pc = "done" /\ scrape'.results = scrape.results)]_vars

C28_Witness ==
    /\ scrape.pc = "returned"
    /\ scrape.driver = "quit"
    /\ scrape.raised
    /\ Len(scrape.returned) >= 1
    /\ Len(scrape.requested) >= 2

(* C29: for every max_results >= 0 the list a scraping call has gathered,  *)
(* and the list it returns, has at most max_results elements on every      *)
(* extraction path, and the loop loads no further page once max_results    *)
(* results are gathered.                                                   *)
C29_AtMostMaxResults ==
    /\ [](/\ Len(scrape.results) <= scrape.max_results
          /\ Len(scrape.returned) <= scrape.max_results)
    /\ [][(scrape.pc = "loop" /\ Len(scrape'.requested) > Len(scrape.requested))
             => Len(scrape.results) < scrape.max_results]_vars

(***************************************************************************)
(*      Properties of the cookie fast path and of the session manager      *)
(***************************************************************************)
LiAtCookies(cookies) == {i \in DOMAIN cookies : cookies[i].name = "li_at"}

\* C25: the cookie fast path answers logged in for an li_at cookie with an
\* expiry only when that expiry, in seconds, lies more than one day after
\* the current time; when every li_at cookie has an expiry already in the
\* past it gives the inconclusive result, so that the browser check runs;
\* an li_at cookie without expiry gives logged in; and no LinkedIn cookies
\* at all give not logged in.
C25_FastPathDayAhead ==
    (fast.done /\ fast.readable) =>
        LET li_at == LiAtCookies(fast.cookies)
            no_expiry == {i \in li_at : fast.cookies[i].expiry.unit = "none"}
        IN /\ (fast.result = "logged_in" /\ no_expiry = {}) =>
                  \E i \in li_at :
                      ExpirySeconds(fast.cookies[i].expiry) > fast.time + Day
           /\ (li_at # {} /\ no_expiry = {}
                 /\ \A i \in li_at : ExpirySeconds(fast.cookies[i].expiry) < fast.time) =>
                  fast.result = "inconclusive" /\ fast.browser
           /\ no_expiry # {} => fast.result = "logged_in"
           /\ fast.cookies = <<>> => fast.result = "not_logged_in"

\* C26: a login-status check of the session manager that returns logged in
\* has overwritten the cookie file with the cookies it verified, and a check
\* that does not return logged in leaves the cookie file as it was.
C26_ValidSessionSavesCookies ==
    local.op \in {"check_linkedin_login_status_local", "check_linkedin_login_local"} =>
        /\ local.result = "true" => cookie_file = FileOf(local.verified)
        /\ local.result # "true" => cookie_file = local.file_before

\* C27: login_and_save_cookies writes the cookie file and returns success
\* only if the browser reached a feed URL within the wait; when the wait
\* timed out, on the login page or on any other URL, it returns a failure
\* result and leaves the cookie file unchanged.
C27_LoginSavesOnlyOnFeed ==
    local.op = "login_and_save_cookies" =>
        /\ (local.result = "success" \/ cookie_file # local.file_before) => local.navigated
        /\ ~local.navigated =>
              local.result = "failure" /\ cookie_file = local.file_before

====
